---- MODULE Spec2Model ----
(***************************************************************************)
(* Model of wherez: discovery driver (wherez.go) and the TCP challenge /   *)
(* response authentication (auth.go).  One local process runs             *)
(* FindAuthenticatedPeers; the network holds its own listener, one honest  *)
(* sibling listener, one participant that does not know the passphrase,    *)
(* and one unreachable host.                                               *)
(***************************************************************************)
EXTENDS Integers, Sequences, FiniteSets, TLC

(* ------------------------------ bounds -------------------------------- *)
MaxPassLen == 2
MaxNonce == 2
MaxEvents == 2
MaxBatchLen == 2

(* -------------------------- program constants ------------------------- *)
magicHeader == "wherez"
messageLen == 20
dedupeLen == 10
MagicLen == 6
ChallengeLen == MagicLen + dedupeLen + messageLen
PortLen == 2
MACLen == 32
ResponseLen == PortLen + MACLen
BlockSize == 64
Uint16 == 65536
DiscoveryPort == 40000
MinPeers == 1
BootstrapNode == "213.239.195.138:40000"

(* ------------------------------ digests ------------------------------- *)
(* A SHA-256 digest is a byte string of SHA256Size bytes.  The digest of x *)
(* is written as the bytes of x between two marks that are no byte values: *)
(* equal inputs give equal digests, different inputs different ones, and a *)
(* digest can be used wherever bytes are (as an HMAC key, with bytes       *)
(* appended).                                                              *)
SHA256Size == 32
DigestOpen == 256
DigestClose == 257
SHA256(x) == <<DigestOpen>> \o x \o <<DigestClose>>

(* ------------------------------ domains ------------------------------- *)
PassBytes == {0, 1}
Passphrases == UNION {[1..n -> PassBytes] : n \in 1..MaxPassLen}
LocalPassphrases == {<<1>>, <<1, 0>>}
AppPorts == {-1, 0, 3000, 68536}
SibAppPorts == {3000, 68536}
Siblings == [pass : Passphrases, appPort : SibAppPorts]
Nonces == 1..MaxNonce
ForeignNonce == MaxNonce + 1
DedupeSelf == "dedupe-self"
DedupeSib == "dedupe-sib"
DedupeMal == "dedupe-mal"
Hosts == {"self", "sib", "mal", "dead"}
MalPorts == {6666}
Junk == <<"junk">>

(* --------------------------- pure functions --------------------------- *)
SHA1(x) == <<"sha1", x>>
FirstHalf(h) == <<"first16", h>>

infoHashFullDigest(pass) == SHA1(SHA256(pass))

infoHash(pass) == SHA1(FirstHalf(SHA256(pass)))

RECURSIVE StripZeros(_)
StripZeros(key) ==
  IF key # <<>> /\ key[Len(key)] = 0
    THEN StripZeros(SubSeq(key, 1, Len(key) - 1))
    ELSE key

(* Number of bytes of a byte string: a digest counts SHA256Size bytes,     *)
(* whatever it is the digest of.                                           *)
DigestDepth(key, i) ==
  Cardinality({j \in 1..(i - 1) : key[j] = DigestOpen})
    - Cardinality({j \in 1..(i - 1) : key[j] = DigestClose})

ByteLen(key) ==
  IF \A i \in 1..Len(key) : key[i] < DigestOpen
    THEN Len(key)
    ELSE Cardinality({i \in 1..Len(key) :
                        key[i] \notin {DigestOpen, DigestClose}
                          /\ DigestDepth(key, i) = 0})
           + SHA256Size * Cardinality({i \in 1..Len(key) :
                                        key[i] = DigestOpen
                                          /\ DigestDepth(key, i) = 0})

(* crypto/hmac key schedule: a key longer than the block is replaced by    *)
(* its digest; the key is then copied into a zeroed block of BlockSize     *)
(* bytes.  The zero-padded block is represented by the key without its     *)
(* trailing zero bytes: two keys give the same block exactly when these    *)
(* are equal.                                                              *)
HMACKey(key) ==
  <<"block",
    StripZeros(IF ByteLen(key) > BlockSize THEN SHA256(key) ELSE key)>>

HMAC(key, msg) == <<"hmac", HMACKey(key), msg>>

checkMACAlwaysTrue(message, messageMAC, key) == TRUE

checkMAC(message, messageMAC, key) == messageMAC = HMAC(key, message)

(* uint16(appPort) *)
ToUint16(n) == n % Uint16

DecodePeerAddress(x) == [host |-> x[1], port |-> x[2]]

SplitHostPort(addr) == <<addr.host, addr.port>>

NoResp == [n |-> 0]

handleOutcomeNoSelfFilter(in, port, pass, self, allowSelf) ==
  IF in.n < ChallengeLen THEN "readerr"
  ELSE IF in.magic # magicHeader THEN "badmagic"
  ELSE "respond"

handleOutcomeNoMagic(in, port, pass, self, allowSelf) ==
  IF in.n < ChallengeLen THEN "readerr"
  ELSE IF ~allowSelf /\ in.dedupe = self THEN "selfconn"
  ELSE "respond"

(* What handleConn does with the bytes of one connection: in is the data  *)
(* the client wrote before EOF (n bytes; the fields are the first 36).     *)
handleOutcome(in, port, pass, self, allowSelf) ==
  IF in.n < ChallengeLen THEN "readerr"
  ELSE IF in.magic # magicHeader THEN "badmagic"
  ELSE IF ~allowSelf /\ in.dedupe = self THEN "selfconn"
  ELSE "respond"

handleResponseNoMacWrite(in, port, pass) ==
  [n |-> ResponseLen, port |-> ToUint16(port), mac |-> HMAC(pass, 0)]

handleResponse(in, port, pass) ==
  [n |-> ResponseLen, port |-> ToUint16(port), mac |-> HMAC(pass, in.nonce)]


(* ------------------------------- state -------------------------------- *)
VARIABLES
  passphrase,           \* FindAuthenticatedPeers argument
  appPort,              \* FindAuthenticatedPeers argument
  allowSelfConnection,  \* package variable, set by the tests
  drv,                  \* position of findAuthenticatedPeers
  ih,                   \* infohash computed by the driver
  chanClosed,           \* close(c) has run
  listener,             \* "unbound", "listening", "stopped"
  dht,                  \* the DHT node created by NewDHTNode, or NoDHT
  requests,             \* arguments of the PeersRequest calls made so far
  reqParity,            \* flips on every PeersRequest
  results,              \* d.PeersRequestResults: sizes of the pending batches
  nEvents,              \* DHT events and client connections so far
  cpc,                  \* position of obtainPeers / checkPeer / verifyPeer
  batch,                \* number of candidates left in the current batch
  ob,                   \* connection of the running verifyPeer
  pending,              \* Peer that checkPeer is sending on c, or NoPeer
  received,             \* number of Peers the caller has received from c
  usedNonces,           \* nonces of the challenges written so far
  conns                 \* connections made to the local listener

vars == <<passphrase, appPort, allowSelfConnection,
          drv, ih, chanClosed, listener, dht, requests, reqParity,
          results, nEvents, cpc, batch, ob, pending, received, usedNonces,
          conns>>

config == <<passphrase, appPort, allowSelfConnection>>
driver == <<drv, ih, chanClosed, dht, requests, reqParity>>
consumer == <<results, cpc, batch, ob, pending, received, usedNonces>>

NoDHT == [created |-> FALSE]
NoIH == <<"none">>
NoConn == [open |-> FALSE]
NoPeer == [host |-> ""]

Init ==
  /\ passphrase \in LocalPassphrases
  /\ appPort \in AppPorts
  /\ allowSelfConnection \in BOOLEAN
  /\ drv = "infohash"
  /\ ih = NoIH
  /\ chanClosed = FALSE
  /\ listener = "unbound"
  /\ dht = NoDHT
  /\ requests = {}
  /\ reqParity = 0
  /\ results = <<>>
  /\ nEvents = 0
  /\ cpc = "idle"
  /\ batch = 0
  /\ ob = NoConn
  /\ pending = NoPeer
  /\ received = 0
  /\ usedNonces = {}
  /\ conns = <<>>

(* ------------------------ findAuthenticatedPeers ---------------------- *)
(* ih, err := infoHash(passphrase); err is always nil.                     *)
DriverInfoHash ==
  /\ drv = "infohash"
  /\ ih' = infoHash(passphrase)
  /\ drv' = IF appPort > 0 THEN "listen" ELSE "newdht"
  /\ UNCHANGED <<config, chanClosed, listener, dht, requests, reqParity,
                 nEvents, consumer, conns>>

DriverListenNoReturn ==
  /\ drv = "listen"
  /\ \E bindOK \in BOOLEAN :
       /\ listener' = IF bindOK THEN "listening" ELSE listener
       /\ drv' = "newdht"
  /\ UNCHANGED <<config, ih, chanClosed, dht, requests, reqParity, nEvents,
                 consumer, conns>>

(* listenAuth(port, appPort, passphrase): bind, then start the accept loop *)
DriverListen ==
  /\ drv = "listen"
  /\ \E bindOK \in BOOLEAN :
       IF bindOK
         THEN /\ listener' = "listening"
              /\ drv' = "newdht"
              /\ UNCHANGED chanClosed
         ELSE /\ chanClosed' = TRUE
              /\ drv' = "returned"
              /\ UNCHANGED listener
  /\ UNCHANGED <<config, ih, dht, requests, reqParity, nEvents, consumer,
                 conns>>

DriverNewDHTClosesListener ==
  /\ drv = "newdht"
  /\ \E dhtOK \in BOOLEAN :
       IF dhtOK
         THEN /\ dht' = [created |-> TRUE, port |-> DiscoveryPort,
                         minPeers |-> MinPeers, announce |-> (appPort > 0),
                         nodes |-> {BootstrapNode}, running |-> TRUE]
              /\ cpc' = "recv"
              /\ drv' = "loop"
              /\ UNCHANGED <<chanClosed, listener>>
         ELSE /\ chanClosed' = TRUE
              /\ drv' = "returned"
              /\ listener' = IF listener = "unbound" THEN listener
                                                     ELSE "stopped"
              /\ UNCHANGED <<dht, cpc>>
  /\ UNCHANGED <<config, ih, requests, reqParity, nEvents,
                 results, batch, ob, pending, received, usedNonces, conns>>

(* dht.NewDHTNode, d.AddNode, go d.DoDHT(), go obtainPeers(d, passphrase, c) *)
DriverNewDHT ==
  /\ drv = "newdht"
  /\ \E dhtOK \in BOOLEAN :
       IF dhtOK
         THEN /\ dht' = [created |-> TRUE, port |-> DiscoveryPort,
                         minPeers |-> MinPeers, announce |-> (appPort > 0),
                         nodes |-> {BootstrapNode}, running |-> TRUE]
              /\ cpc' = "recv"
              /\ drv' = "loop"
              /\ UNCHANGED chanClosed
         ELSE /\ chanClosed' = TRUE
              /\ drv' = "returned"
              /\ UNCHANGED <<dht, cpc>>
  /\ UNCHANGED <<config, ih, listener, requests, reqParity, nEvents,
                 results, batch, ob, pending, received, usedNonces, conns>>

DriverRequestOnce ==
  /\ drv = "loop"
  /\ requests' = requests \cup {[ih |-> ih, announce |-> TRUE]}
  /\ reqParity' = 1 - reqParity
  /\ drv' = "returned"
  /\ chanClosed' = TRUE
  /\ UNCHANGED <<config, ih, listener, dht, nEvents, consumer, conns>>

(* One round of the request loop: d.PeersRequest(string(ih), true), sleep. *)
DriverRequest ==
  /\ drv = "loop"
  /\ requests' = requests \cup {[ih |-> ih, announce |-> TRUE]}
  /\ reqParity' = 1 - reqParity
  /\ UNCHANGED <<config, drv, ih, chanClosed, listener, dht, nEvents,
                 consumer, conns>>

(* ------------------------------ listenAuth ---------------------------- *)
(* The nonce of the challenge that the running verifyPeer has written to   *)
(* the participant that does not know the passphrase.                      *)
RelayNonces ==
  IF ob.open /\ ob.addr.host = "mal" THEN {ob.chal.nonce} ELSE {}

(* What a remote client may write on a connection to the local listener.  *)
ClientData ==
  {[n |-> ChallengeLen - 1],
   [n |-> ChallengeLen, magic |-> "XXXXXX", dedupe |-> DedupeMal,
    nonce |-> ForeignNonce]}
    \cup {[n |-> ChallengeLen, magic |-> magicHeader, dedupe |-> d,
           nonce |-> x] :
            d \in {DedupeSelf, DedupeMal},
            x \in RelayNonces \cup {ForeignNonce}}

NewConn(src, in, eof) ==
  [src |-> src, in |-> in, eof |-> eof, status |-> "backlog",
   outcome |-> "none", resp |-> NoResp, attached |-> (src = "self")]

(* A remote client connects to the discovery port and writes its bytes.   *)
ClientConnect ==
  /\ listener # "unbound"
  /\ nEvents < MaxEvents
  /\ nEvents' = nEvents + 1
  /\ \E in \in ClientData, eof \in BOOLEAN :
       /\ (in.n = ChallengeLen => eof)
       /\ conns' = Append(conns, NewConn("mal", in, eof))
  /\ UNCHANGED <<config, driver, listener, consumer>>

Backlog == {i \in 1..Len(conns) : conns[i].status = "backlog"}

(* conn, err := ln.Accept(); go handleConn(conn, appPort, passphrase)      *)
Accept ==
  /\ listener = "listening"
  /\ Backlog # {}
  /\ LET i == CHOOSE j \in Backlog : \A k \in Backlog : j <= k
     IN conns' = [conns EXCEPT ![i].status = "accepted"]
  /\ UNCHANGED <<config, driver, listener, nEvents, consumer>>

(* ln.Accept() returns an error: the accept loop logs it and returns.      *)
AcceptError ==
  /\ listener = "listening"
  /\ listener' = "stopped"
  /\ UNCHANGED <<config, driver, nEvents, consumer, conns>>

RemoveAt(s, i) == [j \in 1..(Len(s) - 1) |-> IF j < i THEN s[j] ELSE s[j + 1]]

HandleConnFatal(i) ==
  /\ conns[i].status = "accepted"
  /\ conns[i].in.n >= ChallengeLen \/ conns[i].eof
  /\ \E writeOK \in BOOLEAN :
       LET c == conns[i]
           o == handleOutcome(c.in, appPort, passphrase, DedupeSelf,
                              allowSelfConnection)
           r == handleResponse(c.in, appPort, passphrase)
           wrote == o = "respond" /\ writeOK
       IN /\ (o # "respond" => writeOK)
          /\ listener' = IF wrote THEN listener ELSE "stopped"
          /\ conns' = IF c.src = "self"
                        THEN RemoveAt(conns, i)
                        ELSE [conns EXCEPT ![i] =
                               [c EXCEPT !.status = "closed",
                                         !.outcome =
                                           IF o = "respond" /\ ~writeOK
                                             THEN "writeerr" ELSE o,
                                         !.resp = IF wrote THEN r
                                                           ELSE NoResp]]
          /\ ob' = IF c.attached
                     THEN [ob EXCEPT !.resp = IF wrote THEN r ELSE NoResp,
                                     !.remoteClosed = TRUE]
                     ELSE ob
  /\ UNCHANGED <<config, driver, nEvents, results, cpc, batch,
                 pending, received, usedNonces>>

(* handleConn(conn, appPort, passphrase), from the read to the deferred    *)
(* conn.Close().                                                           *)
HandleConn(i) ==
  /\ conns[i].status = "accepted"
  /\ conns[i].in.n >= ChallengeLen \/ conns[i].eof
  /\ \E writeOK \in BOOLEAN :
       LET c == conns[i]
           o == handleOutcome(c.in, appPort, passphrase, DedupeSelf,
                              allowSelfConnection)
           r == handleResponse(c.in, appPort, passphrase)
           wrote == o = "respond" /\ writeOK
       IN /\ (o # "respond" => writeOK)
          /\ conns' = IF c.src = "self"
                        THEN RemoveAt(conns, i)
                        ELSE [conns EXCEPT ![i] =
                               [c EXCEPT !.status = "closed",
                                         !.outcome =
                                           IF o = "respond" /\ ~writeOK
                                             THEN "writeerr" ELSE o,
                                         !.resp = IF wrote THEN r
                                                           ELSE NoResp]]
          /\ ob' = IF c.attached
                     THEN [ob EXCEPT !.resp = IF wrote THEN r ELSE NoResp,
                                     !.remoteClosed = TRUE]
                     ELSE ob
  /\ UNCHANGED <<config, driver, listener, nEvents, results, cpc, batch,
                 pending, received, usedNonces>>

(* ------------------------------- the DHT ------------------------------ *)
(* The DHT sends one result with n candidates on d.PeersRequestResults.    *)
(* The addresses of a batch are drawn when the consumer reaches them.      *)
DHTDeliver ==
  /\ dht.created /\ dht.running
  /\ requests # {}
  /\ results = <<>>
  /\ nEvents < MaxEvents
  /\ nEvents' = nEvents + 1
  /\ \E n \in 1..MaxBatchLen : results' = Append(results, n)
  /\ UNCHANGED <<config, driver, listener, cpc, batch, ob, pending,
                 received, usedNonces, conns>>

(* The DHT closes d.PeersRequestResults: no further result is sent, the    *)
(* results already sent stay receivable.                                   *)
DHTClose ==
  /\ dht.created /\ dht.running
  /\ nEvents < MaxEvents
  /\ nEvents' = nEvents + 1
  /\ dht' = [dht EXCEPT !.running = FALSE]
  /\ UNCHANGED <<config, drv, ih, chanClosed, requests, reqParity, listener,
                 consumer, conns>>

(* ------------------------------ obtainPeers --------------------------- *)
(* The range loop ends when PeersRequestResults is closed and drained:     *)
(* obtainPeers returns.                                                    *)
ConsumerDone ==
  /\ cpc = "recv"
  /\ results = <<>>
  /\ dht.created /\ ~dht.running
  /\ cpc' = "done"
  /\ UNCHANGED <<config, driver, listener, nEvents, results, batch, ob,
                 pending, received, usedNonces, conns>>

(* for r := range d.PeersRequestResults                                    *)
ConsumerRecv ==
  /\ cpc = "recv"
  /\ results # <<>>
  /\ batch' = Head(results)
  /\ results' = Tail(results)
  /\ cpc' = "verify"
  /\ UNCHANGED <<config, driver, listener, nEvents, ob, pending,
                 received, usedNonces, conns>>

AfterCandidateAbort == "recv"

(* Where obtainPeers continues when checkPeer returns: the next candidate  *)
(* of the batch or, after the last one, the next receive.                  *)
AfterCandidate == IF batch = 1 THEN "recv" ELSE "verify"

newChallengeNoCopy(nonce) ==
  [n |-> ChallengeLen, magic |-> magicHeader, dedupe |-> DedupeSelf,
   nonce |-> 0]

(* newChallenge(): nonce is the value returned by its randMsg() call.      *)
newChallenge(nonce) ==
  [n |-> ChallengeLen, magic |-> magicHeader, dedupe |-> DedupeSelf,
   nonce |-> nonce]

(* Whether a TCP connection to host can be established.                    *)
Reachable(host) ==
  CASE host = "dead" -> FALSE
    [] host = "self" -> listener # "unbound"
    [] OTHER -> TRUE

connCloseSkipped(conn) == conn

(* defer conn.Close() in verifyPeer *)
connClose(conn) == NoConn

(* verifyPeer up to the blocking read: net.Dial, newChallenge,             *)
(* binary.Write(conn, challenge).                                          *)
VerifyPeerSend ==
  /\ cpc = "verify"
  /\ \E host \in Hosts, dialOK \in BOOLEAN, rngOK \in BOOLEAN,
        writeOK \in BOOLEAN, nonce \in Nonces :
       LET addr == DecodePeerAddress(<<host, DiscoveryPort>>)
           chal == newChallenge(nonce)
           sent == dialOK /\ rngOK /\ writeOK
           conn == [open |-> TRUE, addr |-> addr, chal |-> chal,
                    rand |-> nonce, resp |-> NoResp,
                    remoteClosed |-> FALSE]
       IN /\ (dialOK => Reachable(addr.host))
          /\ (~dialOK => rngOK /\ writeOK)
          /\ (~rngOK => writeOK)
          /\ (~sent => nonce = 1)
          /\ IF sent
               THEN /\ ob' = conn
                    /\ usedNonces' = usedNonces \cup {chal.nonce}
                    /\ cpc' = "read"
                    /\ UNCHANGED batch
               ELSE /\ ob' = IF dialOK THEN connClose(conn) ELSE NoConn
                    /\ cpc' = AfterCandidate
                    /\ batch' = batch - 1
                    /\ UNCHANGED usedNonces
          /\ conns' = IF dialOK /\ addr.host = "self"
                        THEN Append(conns,
                               [NewConn("self",
                                        IF sent THEN chal ELSE [n |-> 0],
                                        TRUE)
                                  EXCEPT !.attached = sent])
                        ELSE conns
  /\ UNCHANGED <<config, driver, listener, nEvents, results, pending,
                 received>>

(* What a sibling started by listenAuth(port, s.appPort, s.pass) writes    *)
(* back when it is sent the challenge in.                                  *)
sibResponses(in, s) ==
  IF handleOutcome(in, s.appPort, s.pass, DedupeSib, FALSE) = "respond"
    THEN {NoResp, handleResponse(in, s.appPort, s.pass)}
    ELSE {NoResp}

(* Keys and MACs of the participant that does not know the passphrase:     *)
(* MACs under keys of its own, the MACs it has read from the local         *)
(* listener, and the answers of sibling listeners to which it forwards     *)
(* the nonce it was sent.                                                  *)
MalKeys == {k \in Passphrases : HMACKey(k) # HMACKey(passphrase)}
RelayMacs ==
  {r.mac : r \in UNION {(sibResponses([newChallenge(x) EXCEPT
                                         !.dedupe = DedupeMal], t)
                           \ {NoResp}) :
                          x \in RelayNonces, t \in Siblings}}
MalMacs ==
  {Junk} \cup {HMAC(k, x) : k \in MalKeys, x \in RelayNonces}
         \cup {conns[i].resp.mac :
                 i \in {j \in 1..Len(conns) :
                          conns[j].src = "mal"
                            /\ conns[j].resp.n = ResponseLen}}
         \cup RelayMacs
MalResponses ==
  {NoResp, [n |-> ResponseLen - 1]}
    \cup {[n |-> ResponseLen, port |-> q, mac |-> m] :
            q \in MalPorts, m \in MalMacs}

NoCfg == [pass |-> <<>>, appPort |-> 0]

(* What the running verifyPeer can find on its connection: pairs of the    *)
(* listenAuth arguments of the remote listener and the bytes it wrote      *)
(* before it closed.  The local listener's answer is written by            *)
(* HandleConn.                                                             *)
RemoteAnswers ==
  CASE ob.addr.host = "sib" ->
         UNION {{<<s, r>> : r \in sibResponses(ob.chal, s)} : s \in Siblings}
    [] ob.addr.host = "mal" ->
         {<<NoCfg, r>> : r \in MalResponses}
    [] ob.addr.host = "self" ->
         IF ob.remoteClosed
           THEN {<<[pass |-> passphrase, appPort |-> appPort], ob.resp>>}
           ELSE {}
    [] OTHER -> {}

verifyResult(chal, resp, readOK, pass) ==
  IF ~readOK \/ resp.n < ResponseLen THEN "readerr"
  ELSE IF ~checkMAC(chal.nonce, resp.mac, pass) THEN "macerr"
  ELSE "ok"

(* verifyPeer from the read to the return: binary.Read, checkMAC,          *)
(* net.SplitHostPort, deferred conn.Close().                               *)
VerifyPeerRecv ==
  /\ cpc = "read"
  /\ \E readOK \in BOOLEAN :
     \E a \in IF readOK THEN RemoteAnswers ELSE {<<NoCfg, NoResp>>} :
       LET cfg == a[1]
           resp == a[2]
           res == verifyResult(ob.chal, resp, readOK, passphrase)
           host == SplitHostPort(ob.addr)[1]
       IN /\ IF res = "ok"
            THEN /\ pending' = [host |-> host, port |-> resp.port,
                                addr |-> ob.addr, cfg |-> cfg,
                                nonce |-> ob.chal.nonce,
                                mac |-> resp.mac]
                 /\ cpc' = "send"
                 /\ UNCHANGED batch
            ELSE /\ pending' = NoPeer
                 /\ cpc' = AfterCandidate
                 /\ batch' = batch - 1
  /\ ob' = connClose(ob)
  /\ conns' = [i \in 1..Len(conns) |-> [conns[i] EXCEPT !.attached = FALSE]]
  /\ UNCHANGED <<config, driver, listener, nEvents, results, received,
                 usedNonces>>

CheckPeerDropWhenBusy ==
  /\ cpc = "send"
  /\ pending' = NoPeer
  /\ cpc' = AfterCandidate
  /\ batch' = batch - 1
  /\ UNCHANGED <<config, driver, listener, nEvents, results, ob, received,
                 usedNonces, conns>>

(* checkPeer's c <- peer completes when the caller receives from c.        *)
CallerReceive ==
  /\ cpc = "send"
  /\ ~chanClosed
  /\ pending' = NoPeer
  /\ received' = received + 1
  /\ cpc' = AfterCandidate
  /\ batch' = batch - 1
  /\ UNCHANGED <<config, driver, listener, nEvents, results, ob,
                 usedNonces, conns>>

(* --------------------------- specification ---------------------------- *)
Next ==
  \/ DriverInfoHash
  \/ DriverListen
  \/ DriverNewDHT
  \/ DriverRequest
  \/ ClientConnect
  \/ Accept
  \/ AcceptError
  \/ \E i \in 1..Len(conns) : HandleConn(i)
  \/ DHTDeliver
  \/ DHTClose
  \/ ConsumerRecv
  \/ ConsumerDone
  \/ VerifyPeerSend
  \/ VerifyPeerRecv
  \/ CallerReceive

Spec == Init /\ [][Next]_vars

FairSpec == Spec /\ WF_vars(DriverRequest)

(* Every goroutine that can run is scheduled: the request loop, the        *)
(* consumer's receive from PeersRequestResults and its dial and write, and *)
(* a caller that keeps receiving from c.  The read of verifyPeer has no    *)
(* deadline and gets no fairness: a remote peer may never answer and never *)
(* close.                                                                  *)
LiveSpec ==
  /\ Spec
  /\ WF_vars(DriverRequest)
  /\ WF_vars(ConsumerRecv)
  /\ WF_vars(ConsumerDone)
  /\ WF_vars(VerifyPeerSend)
  /\ WF_vars(CallerReceive)

(* ------------------------------- claims ------------------------------- *)
Closed == {i \in 1..Len(conns) : conns[i].status = "closed"}

(* C1: every Peer that checkPeer sends on the output channel carries a     *)
(* MAC that equals HMAC-SHA256(passphrase, N) for the nonce N of the       *)
(* challenge verifyPeer wrote on the connection the MAC was read from; a   *)
(* Peer is held for sending only in the send position.                     *)
C1_EmittedVerified ==
  /\ cpc = "send" => pending.mac = HMAC(passphrase, pending.nonce)
  /\ cpc # "send" <=> pending = NoPeer

C1_Witness ==
  cpc = "send" /\ pending.host = "sib" /\ pending.nonce = MaxNonce

(* C2: verifyPeer with passphrase p never returns a Peer from a listener   *)
(* started by listenAuth with a passphrase q # p.                          *)
C2_MismatchNeverPeer ==
  cpc = "send" /\ pending.host \in {"sib", "self"}
    => pending.cfg.pass = passphrase

(* C3: with matching passphrases the Peer has the host of the dialed       *)
(* address and the port is the listener's configured appPort.              *)
C3_RoundTrip ==
  cpc = "send" /\ pending.host \in {"sib", "self"}
               /\ pending.cfg.pass = passphrase
    => /\ pending.host = pending.addr.host
       /\ pending.port = pending.cfg.appPort

(* C4: the host of a participant that does not know the passphrase is      *)
(* never emitted as a Peer.                                                *)
C4_OnlyKnowersEmitted ==
  cpc = "send" => pending.host # "mal"

(* C5: once the listener step and DHT creation have succeeded the driver   *)
(* stays in its loop and the output channel is not closed; the channel is  *)
(* closed only by a driver that returned without creating the DHT node.    *)
C5_ClosedOnlyAtStartup ==
  [][/\ drv = "loop" => drv' = "loop" /\ ~chanClosed'
     /\ chanClosed' => drv' = "returned" /\ ~dht'.created /\ cpc' = "idle"]_vars

C5_Witness ==
  /\ drv = "loop" /\ ~chanClosed /\ listener = "stopped"
  /\ cpc = "send" /\ requests # {} /\ reqParity = 0

(* C6: after a fatal startup error the driver has closed the channel and   *)
(* stopped: after a failed bind no DHT node exists, and after a failed     *)
(* bind or DHT creation the consumer was not started and no PeersRequest   *)
(* was issued.                                                             *)
C6_FatalStartupStops ==
  /\ appPort > 0 /\ listener = "unbound" /\ drv \notin {"infohash", "listen"}
       => drv = "returned" /\ chanClosed /\ ~dht.created
  /\ drv \notin {"infohash", "listen", "newdht"} /\ ~dht.created
       => /\ drv = "returned" /\ chanClosed
          /\ cpc = "idle" /\ requests = {} /\ results = <<>>
  /\ drv = "returned" => chanClosed /\ ~dht.created

C6_Witness ==
  drv = "returned" /\ appPort > 0 /\ listener = "unbound"

(* C7: with appPort <= 0 the listener is never bound, the DHT node is      *)
(* created with announce false and no DHT call asks to announce; with      *)
(* appPort > 0 the listener is bound and the node announces.               *)
C7_PureClientNeverAnnounces ==
  /\ appPort <= 0 =>
       /\ listener = "unbound"
       /\ dht.created => ~dht.announce
       /\ \A r \in requests : ~r.announce
  /\ appPort > 0 /\ dht.created => listener # "unbound" /\ dht.announce

(* C8: with the self-filter on, handleConn writes no response on a         *)
(* connection whose challenge carries the process's own dedupe ID, and a   *)
(* verifyPeer that dialed the local listener never yields a Peer.          *)
C8_SelfFilter ==
  ~allowSelfConnection =>
    /\ \A i \in Closed :
         conns[i].in.n >= ChallengeLen /\ conns[i].in.magic = magicHeader
           /\ conns[i].in.dedupe = DedupeSelf
         => conns[i].resp = NoResp /\ conns[i].outcome = "selfconn"
    /\ ob.open /\ ob.addr.host = "self" => ob.resp = NoResp
    /\ cpc = "send" => pending.host # "self"

C8_Witness ==
  /\ ~allowSelfConnection
  /\ ob.open /\ ob.addr.host = "self" /\ ob.remoteClosed
  /\ ob.chal.dedupe = DedupeSelf /\ ob.resp = NoResp
  /\ \E i \in Closed : conns[i].outcome = "selfconn"

(* C9: a connection that delivered fewer than 36 bytes before EOF, or      *)
(* whose first 6 bytes are not "wherez", is closed with no response byte   *)
(* written and no MAC computed.                                            *)
C9_FramingGuard ==
  \A i \in Closed :
    conns[i].in.n < ChallengeLen \/ conns[i].in.magic # magicHeader
      => /\ conns[i].resp = NoResp
         /\ conns[i].outcome \in {"readerr", "badmagic"}

C9_Witness ==
  /\ \E i \in Closed : conns[i].in.n < ChallengeLen
  /\ \E i \in Closed : /\ conns[i].in.n = ChallengeLen
                       /\ conns[i].in.magic # magicHeader
                       /\ conns[i].outcome = "badmagic"

(* C10: after a successful startup PeersRequest is issued again and again, *)
(* always for infoHash(passphrase) with announce true, whatever the        *)
(* consumer, the candidates and the accept loop do.                        *)
C10_RequestsForever ==
  /\ [](drv = "loop" => <>(reqParity = 1))
  /\ [](drv = "loop" => <>(reqParity = 0 /\ requests # {}))
  /\ [](requests \subseteq {[ih |-> infoHash(passphrase), announce |-> TRUE]})

C10_Witness ==
  /\ drv = "loop" /\ reqParity = 0 /\ requests # {}
  /\ listener = "stopped" /\ cpc = "read"

(* C11: a candidate delivered by the DHT is eventually dialed although the *)
(* verification of another candidate never completes: a candidate waiting  *)
(* in the current batch behind a verification in progress is taken up, and *)
(* a batch waiting on PeersRequestResults is received.                     *)
C11_Concurrent ==
  /\ \A n \in 2..MaxBatchLen :
       [](batch = n /\ cpc = "read"
            => <>(batch < n - 1 \/ (batch = n - 1 /\ cpc # "verify")))
  /\ [](results # <<>> => <>(results = <<>>))

(* C12: a verified Peer stays with the blocked sender, unchanged, until    *)
(* the caller receives it; every receive of the caller takes exactly the   *)
(* one Peer that is being sent; and with a caller that keeps reading the   *)
(* Peer being sent is eventually received.                                 *)
C12_NoDropNoBuffer ==
  /\ [][/\ pending # NoPeer =>
            \/ pending' = pending /\ received' = received /\ cpc' = "send"
            \/ pending' = NoPeer /\ received' = received + 1
        /\ received' # received =>
            pending # NoPeer /\ pending' = NoPeer
              /\ received' = received + 1]_vars
  /\ [](pending # NoPeer => <>(pending = NoPeer))

C12_Witness ==
  cpc = "send" /\ received = 1 /\ pending.host = "sib"

(* C13: infoHash never fails and the driver's infohash is SHA-1 of the     *)
(* first 16 bytes of SHA-256(passphrase): the driver leaves its first step *)
(* with that value, and it never returns or closes the channel from it.    *)
C13_InfoHashTotal ==
  /\ drv # "infohash" => ih = SHA1(FirstHalf(SHA256(passphrase)))
  /\ drv = "infohash" => ih = NoIH /\ ~chanClosed
  /\ drv = "returned" =>
       \/ appPort > 0 /\ listener = "unbound"
       \/ ~dht.created /\ (appPort > 0 => listener # "unbound")

C13_Witness ==
  /\ drv = "loop" /\ passphrase = <<1, 0>>
  /\ ih = SHA1(FirstHalf(SHA256(<<1, 0>>)))
  /\ requests = {[ih |-> ih, announce |-> TRUE]}

(* C14: a verifyPeer that has returned has closed its connection, whatever *)
(* the exit (challenge, write, read or MAC error, or success): outside the *)
(* exchange no dialed connection is open; and a handleConn that has        *)
(* returned has closed its connection, whatever the outcome.               *)
C14_ConnsClosed ==
  /\ cpc # "read" => ~ob.open
  /\ cpc = "read" => ob.open
  /\ \A i \in 1..Len(conns) :
       /\ conns[i].outcome # "none" <=> conns[i].status = "closed"
       /\ conns[i].attached => ob.open /\ ~ob.remoteClosed
       /\ conns[i].status = "closed" =>
            conns[i].outcome \in {"readerr", "badmagic", "selfconn",
                                  "writeerr", "respond"}

C14_Witness ==
  /\ cpc = "verify" /\ batch = 1 /\ usedNonces # {} /\ received = 0
  /\ ~ob.open /\ pending = NoPeer

(* C15: a response is written on a connection only once, by a handler that *)
(* read a full 36-byte challenge on it and then closed it, and its MAC is  *)
(* HMAC-SHA256(passphrase, nonce) of that challenge's nonce; the dialer's  *)
(* connection carries exactly the one challenge it built.                  *)
C15_OneInOneOut ==
  /\ \A i \in 1..Len(conns) :
       /\ conns[i].resp # NoResp =>
            /\ conns[i].status = "closed" /\ conns[i].outcome = "respond"
            /\ conns[i].in.n = ChallengeLen
            /\ conns[i].resp.n = ResponseLen
            /\ conns[i].resp.mac = HMAC(passphrase, conns[i].in.nonce)
       /\ conns[i].attached => conns[i].in = ob.chal
  /\ ob.open =>
       /\ ob.chal.n = ChallengeLen
       /\ ob.resp # NoResp =>
            /\ ob.addr.host = "self" /\ ob.remoteClosed
            /\ ob.resp.n = ResponseLen
            /\ ob.resp.mac = HMAC(passphrase, ob.chal.nonce)

C15_Witness ==
  \E i \in Closed : /\ conns[i].outcome = "respond"
                    /\ conns[i].in.nonce = ForeignNonce
                    /\ conns[i].resp.mac = HMAC(passphrase, ForeignNonce)

(* C16: the accept loop stops only by a step of its own (an Accept error), *)
(* never by a step of a connection handler, whatever the handler's         *)
(* outcome; the stop leaves the driver, the consumer and the output        *)
(* channel as they are, and with a stopped accept loop a started           *)
(* discovery stays in the request loop with the channel open and the       *)
(* consumer running.                                                       *)
C16_AcceptLoop ==
  [][/\ listener = "listening" /\ listener' # "listening" =>
          /\ listener' = "stopped" /\ conns' = conns
          /\ UNCHANGED <<drv, cpc, chanClosed, batch, pending, requests>>
     /\ listener = "stopped" => listener' = "stopped"
     /\ listener' = "stopped" /\ dht'.created =>
          drv' = "loop" /\ ~chanClosed' /\ cpc' # "idle"]_vars

C16_Witness ==
  /\ listener = "listening"
  /\ \E i, j \in Closed :
       /\ i < j
       /\ conns[i].outcome \in {"readerr", "badmagic", "selfconn", "writeerr"}
       /\ conns[j].outcome = "respond"

(* C17: a verifyPeer that ends with an error (dial, RNG, write, read or    *)
(* MAC) drops only its candidate: nothing is sent or received on the       *)
(* output channel, the channel is not closed, the driver is untouched and  *)
(* the consumer goes on with the next candidate of the batch, or with the  *)
(* next receive after the last one.                                        *)
C17_PeerFailureDropsOne ==
  [][batch' # batch /\ cpc \in {"verify", "read"} =>
       /\ pending' = NoPeer /\ received' = received
       /\ ~chanClosed' /\ drv' = drv /\ results' = results
       /\ ~ob'.open
       /\ batch' = batch - 1
       /\ cpc' = (IF batch' = 0 THEN "recv" ELSE "verify")]_vars

C17_Witness ==
  /\ cpc = "read" /\ ob.addr.host = "sib" /\ batch = 1
  /\ received = 0 /\ Cardinality(usedNonces) = 2 /\ ~chanClosed

(* C18: no two challenges written by verifyPeer carry the same nonce: the  *)
(* nonce of a newly written challenge is none of the nonces written        *)
(* before; and every challenge carries magic "wherez" and the process's    *)
(* dedupe ID.                                                              *)
C18_NoncesNeverRepeat ==
  [][~ob.open /\ ob'.open =>
       /\ ob'.chal.nonce \notin usedNonces
       /\ ob'.chal.magic = magicHeader
       /\ ob'.chal.dedupe = DedupeSelf]_vars

(* C18 as amended: the nonce of every challenge written by verifyPeer is   *)
(* the value that the randMsg call of that same attempt returned, and      *)
(* every challenge carries magic "wherez" and the process's dedupe ID.     *)
C18_NonceDrawnPerAttempt ==
  ob.open =>
    /\ ob.chal.nonce = ob.rand /\ ob.rand \in Nonces
    /\ ob.chal.nonce \in usedNonces
    /\ ob.chal.magic = magicHeader
    /\ ob.chal.dedupe = DedupeSelf
    /\ ob.chal.n = ChallengeLen

C18_Witness ==
  /\ ob.open /\ ob.rand = MaxNonce /\ ob.chal.nonce = MaxNonce
  /\ usedNonces = Nonces /\ received = 1

(* C19: the node binds the listener, creates an announcing DHT node and    *)
(* writes responses only when 0 < appPort <= 65535, and the 16-bit port of *)
(* every response it writes is the appPort it was started with.            *)
C19_AdvertiseOnlyValidPort ==
  /\ ~(0 < appPort /\ appPort <= Uint16 - 1) =>
       /\ listener = "unbound"
       /\ dht.created => ~dht.announce
       /\ \A i \in Closed : conns[i].resp = NoResp
  /\ \A i \in Closed :
       conns[i].resp # NoResp => conns[i].resp.port = appPort
  /\ ob.open /\ ob.resp # NoResp => ob.resp.port = appPort

(* C20: a bound listener is never unbound and no step of the driver stops  *)
(* its accept loop; a driver that returned after the bind has closed the   *)
(* channel without starting discovery, and a handler that then closes a    *)
(* connection carrying a well-formed challenge has written the valid MAC   *)
(* unless its write failed.                                                *)
C20_ListenerOutlivesDriver ==
  [][/\ listener # "unbound" => listener' # "unbound"
     /\ listener = "listening" /\ drv' # drv => listener' = "listening"
     /\ drv' = "returned" /\ listener' # "unbound" =>
          chanClosed' /\ ~dht'.created /\ requests' = {} /\ cpc' = "idle"
     /\ drv = "returned" /\ Len(conns') = Len(conns) =>
          \A i \in 1..Len(conns) :
            /\ conns[i].status = "accepted"
            /\ conns'[i].status = "closed"
            /\ handleOutcome(conns[i].in, appPort, passphrase, DedupeSelf,
                              allowSelfConnection) = "respond"
            => \/ conns'[i].outcome = "writeerr"
               \/ /\ conns'[i].outcome = "respond"
                  /\ conns'[i].resp.mac
                       = HMAC(passphrase, conns[i].in.nonce)]_vars

C20_Witness ==
  /\ drv = "returned" /\ chanClosed /\ listener = "listening"
  /\ \E i \in Closed : conns[i].outcome = "respond"
  /\ \E i \in 1..Len(conns) : conns[i].status = "accepted"

(* C21: once PeersRequestResults is closed, obtainPeers eventually         *)
(* returns, whatever its candidates do.                                    *)
C21_ConsumerTerminates ==
  [](dht.created /\ ~dht.running => <>(cpc = "done"))

(* C22: no Peer is sent on a closed output channel: while checkPeer sends  *)
(* the channel is open; the consumer runs only with the driver in its      *)
(* request loop, and a closed channel belongs to a driver that returned    *)
(* without ever starting the consumer, so nothing was or is being sent.    *)
C22_NoSendAfterClose ==
  /\ cpc = "send" => ~chanClosed
  /\ cpc # "idle" => drv = "loop" /\ ~chanClosed
  /\ chanClosed =>
       /\ drv = "returned" /\ cpc = "idle"
       /\ pending = NoPeer /\ received = 0

C22_Witness ==
  /\ cpc = "send" /\ pending.host = "mal" /\ ~chanClosed
  /\ drv = "loop" /\ appPort > 0 /\ listener = "stopped"
  /\ ~dht.running

====
